---- MODULE Spec2Model ----
(***************************************************************************)
(* ParetoOptimal (algorithms/q2implement.py): pareto_optimal copies the    *)
(* caller's list, sorts the copy by x with a recursive merge sort          *)
(* (mergesort_by_x / merge), reverses it, and scans it keeping the points  *)
(* whose y exceeds the running maximum.                                    *)
(*                                                                         *)
(* A point is the Python tuple (x, y, label), here <<x, y, label>>; Python *)
(* index 0 is index 1 here.  The recursion of mergesort_by_x is an         *)
(* explicit stack of frames; the list a frame sorts is the caller's own    *)
(* list object (Python passes the reference), so it is read and written    *)
(* through the caller's frame, never copied.                               *)
(***************************************************************************)
EXTENDS Integers, Sequences, FiniteSets, TLC

MaxLen == 3
MaxX == 2
MaxY == 2

\* Labels of the points of a list, by position in the list (the handout's
\* example names its points "A", "B", ... in input order).
LabelOf == <<"A", "B", "C", "D", "E", "F", "G", "H", "I", "J">>

\* The example of test().
RefPoints ==
  << <<4, 3, "A">>, <<6, 6, "B">>, <<4, 8, "C">>, <<5, 10, "D">>,
     <<8, 7, "E">>, <<10, 4, "F">>, <<11, 2, "G">>, <<2, 1, "H">>,
     <<2, 6, "I">>, <<1, 11, "J">> >>

Coords == (1..MaxX) \X (1..MaxY)

\* The lists a caller passes: every list of up to MaxLen points over the
\* coordinates, and the example of test().
Inputs ==
  UNION { { [i \in 1..n |-> <<c[i][1], c[i][2], LabelOf[i]>>] : c \in [1..n -> Coords] }
          : n \in 0..MaxLen }
  \cup {RefPoints}

VARIABLES
  points,   \* the caller's list
  given,    \* the caller's list as it was when the call was made
  entry,    \* the function the caller calls
  calls,    \* number of calls of pareto_optimal made so far
  pc,       \* position of the caller / of pareto_optimal
  ptlist,   \* pareto_optimal: the private copy
  stack,    \* frames of mergesort_by_x, outermost first
  opt,      \* pareto_optimal: the points picked so far
  max_y,    \* pareto_optimal: <<>> is float("-inf"), <<v>> is the number v
  pos,      \* pareto_optimal: number of points the for loop has visited
  results   \* the list pareto_optimal returned

vars == <<points, given, entry, calls, pc, ptlist, stack, opt, max_y, pos, results>>

----------------------------------------------------------------------------
\* Python helpers

\* the list left as it is
ReverseOmitted(s) == s

\* list.reverse()
Reverse(s) == [i \in 1..Len(s) |-> s[Len(s) + 1 - i]]

\* pts[0:mid] and pts[mid:]
SliceTo(s, mid) == SubSeq(s, 1, mid)
SliceFrom(s, mid) == SubSeq(s, mid + 1, Len(s))

\* pnt[1] >= max_y
ReachesMaxY(y, m) == m = <<>> \/ y >= m[1]

\* pnt[1] > max_y, max_y starting at float("-inf")
ExceedsMaxY(y, m) == m = <<>> \/ y > m[1]

\* left[0][0] < right[0][0]
TakeLeftStrict(left, right) == left[1][1] < right[1][1]

\* left[0][0] <= right[0][0]
TakeLeft(left, right) == left[1][1] <= right[1][1]

\* mid = (len(pts) + 1) / 2
MidRoundedUp(n) == (n + 1) \div 2

\* mid = len(pts) / 2   (Python 2 integer division)
Mid(n) == n \div 2

----------------------------------------------------------------------------
\* mergesort_by_x: frames and the list each frame sorts

NewFrame == [pc |-> "entry", mid |-> 0, left |-> <<>>, right |-> <<>>, idx |-> 0]

\* mergesort_by_x(points) in pareto_optimal too
SortsCallersListAlways == TRUE

\* pareto_optimal sorts its copy; a direct call sorts the caller's list.
SortsCallersList == entry = "mergesort_by_x"

\* The list object that frame k was called with.
Pts(k) ==
  IF k = 1 THEN (IF SortsCallersList THEN points ELSE ptlist)
  ELSE IF stack[k - 1].pc = "inLeft" THEN stack[k - 1].left
  ELSE stack[k - 1].right

Top == Len(stack)

Init ==
  /\ points \in Inputs
  /\ given = points
  /\ entry \in {"pareto_optimal", "mergesort_by_x"}
  /\ calls = 0
  /\ pc = "start"
  /\ ptlist = <<>>
  /\ stack = <<>>
  /\ opt = <<>>
  /\ max_y = <<>>
  /\ pos = 0
  /\ results = <<>>

\* pareto_optimal lines 28-30: copy the list and call mergesort_by_x(ptlist)
ParetoBegin ==
  /\ pc = "start"
  /\ entry = "pareto_optimal"
  /\ ptlist' = points
  /\ stack' = <<NewFrame>>
  /\ calls' = calls + 1
  /\ pc' = "sort"
  /\ UNCHANGED <<points, given, entry, opt, max_y, pos, results>>

\* a caller calling mergesort_by_x(points) itself
SortBegin ==
  /\ pc = "start"
  /\ entry = "mergesort_by_x"
  /\ stack' = <<NewFrame>>
  /\ pc' = "sort"
  /\ UNCHANGED <<points, given, entry, calls, ptlist, opt, max_y, pos, results>>

\* The stack and pc after the top frame returns to its caller.
ReturnFrom(stk) ==
  IF Len(stk) = 1
  THEN /\ stack' = <<>>
       /\ pc' = IF entry = "pareto_optimal" THEN "reverse" ELSE "done"
  ELSE /\ stack' = [SubSeq(stk, 1, Len(stk) - 1) EXCEPT
                      ![Len(stk) - 1].pc = IF @ = "inLeft" THEN "callRight" ELSE "merge",
                      ![Len(stk) - 1].idx = 0]
       /\ pc' = pc

\* line 51, len(pts) <= 1: nothing to do
SortBase ==
  /\ pc = "sort"
  /\ stack[Top].pc = "entry"
  /\ Len(Pts(Top)) <= 1
  /\ ReturnFrom(stack)
  /\ UNCHANGED <<points, given, entry, calls, ptlist, opt, max_y, pos, results>>

\* lines 51-54
SortSplit ==
  /\ pc = "sort"
  /\ stack[Top].pc = "entry"
  /\ Len(Pts(Top)) > 1
  /\ LET mid == Mid(Len(Pts(Top))) IN
       stack' = [stack EXCEPT ![Top] =
                   [pc |-> "callLeft", mid |-> mid,
                    left |-> SliceTo(Pts(Top), mid),
                    right |-> SliceFrom(Pts(Top), mid), idx |-> 0]]
  /\ UNCHANGED <<points, given, entry, calls, pc, ptlist, opt, max_y, pos, results>>

\* line 55
SortCallLeft ==
  /\ pc = "sort"
  /\ stack[Top].pc = "callLeft"
  /\ stack' = Append([stack EXCEPT ![Top].pc = "inLeft"], NewFrame)
  /\ UNCHANGED <<points, given, entry, calls, pc, ptlist, opt, max_y, pos, results>>

\* line 56
SortCallRight ==
  /\ pc = "sort"
  /\ stack[Top].pc = "callRight"
  /\ stack' = Append([stack EXCEPT ![Top].pc = "inRight"], NewFrame)
  /\ UNCHANGED <<points, given, entry, calls, pc, ptlist, opt, max_y, pos, results>>

----------------------------------------------------------------------------
\* merge(left, right, org), run by the top frame on its own left, right, pts

\* org[idx] = v; idx += 1, after the pop that produced v left the frame as nf.
\* A store at an index outside org raises IndexError and the program stops.
StoreOrg(v, nf) ==
  LET org == Pts(Top)
      idx == stack[Top].idx
  IN IF idx >= Len(org)
     THEN /\ pc' = "error"
          /\ stack' = [stack EXCEPT ![Top] = nf]
          /\ UNCHANGED <<points, ptlist>>
     ELSE LET stored == [org EXCEPT ![idx + 1] = v]
              after == [nf EXCEPT !.idx = idx + 1]
          IN /\ pc' = pc
             /\ IF Top = 1
                THEN /\ stack' = [stack EXCEPT ![1] = after]
                     /\ IF SortsCallersList
                        THEN points' = stored /\ ptlist' = ptlist
                        ELSE ptlist' = stored /\ points' = points
                ELSE /\ stack' = [stack EXCEPT
                                    ![Top] = after,
                                    ![Top - 1] = IF @.pc = "inLeft"
                                                 THEN [@ EXCEPT !.left = stored]
                                                 ELSE [@ EXCEPT !.right = stored]]
                     /\ UNCHANGED <<points, ptlist>>

\* left.pop(0) / right.pop(0)
PopLeft(f) == [f EXCEPT !.left = Tail(f.left)]
PopRight(f) == [f EXCEPT !.right = Tail(f.right)]

\* lines 63-68, one iteration of the first loop
MergeLoop ==
  /\ pc = "sort"
  /\ stack[Top].pc = "merge"
  /\ Len(stack[Top].left) > 0 /\ Len(stack[Top].right) > 0
  /\ IF TakeLeft(stack[Top].left, stack[Top].right)
     THEN StoreOrg(Head(stack[Top].left), PopLeft(stack[Top]))
     ELSE StoreOrg(Head(stack[Top].right), PopRight(stack[Top]))
  /\ UNCHANGED <<given, entry, calls, opt, max_y, pos, results>>

\* line 63, condition false
MergeLoopExit ==
  /\ pc = "sort"
  /\ stack[Top].pc = "merge"
  /\ ~(Len(stack[Top].left) > 0 /\ Len(stack[Top].right) > 0)
  /\ stack' = [stack EXCEPT ![Top].pc = "drainLeft"]
  /\ UNCHANGED <<points, given, entry, calls, pc, ptlist, opt, max_y, pos, results>>

\* lines 69-71, one iteration
DrainLeft ==
  /\ pc = "sort"
  /\ stack[Top].pc = "drainLeft"
  /\ Len(stack[Top].left) > 0
  /\ StoreOrg(Head(stack[Top].left), PopLeft(stack[Top]))
  /\ UNCHANGED <<given, entry, calls, opt, max_y, pos, results>>

\* line 69, condition false
DrainLeftExit ==
  /\ pc = "sort"
  /\ stack[Top].pc = "drainLeft"
  /\ ~(Len(stack[Top].left) > 0)
  /\ stack' = [stack EXCEPT ![Top].pc = "drainRight"]
  /\ UNCHANGED <<points, given, entry, calls, pc, ptlist, opt, max_y, pos, results>>

\* lines 72-74, one iteration
DrainRight ==
  /\ pc = "sort"
  /\ stack[Top].pc = "drainRight"
  /\ Len(stack[Top].right) > 0
  /\ StoreOrg(Head(stack[Top].right), PopRight(stack[Top]))
  /\ UNCHANGED <<given, entry, calls, opt, max_y, pos, results>>

\* line 72, condition false: merge returns, and mergesort_by_x after it
DrainRightExit ==
  /\ pc = "sort"
  /\ stack[Top].pc = "drainRight"
  /\ ~(Len(stack[Top].right) > 0)
  /\ ReturnFrom(stack)
  /\ UNCHANGED <<points, given, entry, calls, ptlist, opt, max_y, pos, results>>

----------------------------------------------------------------------------
\* pareto_optimal after the sort

\* lines 32-34
ReverseList ==
  /\ pc = "reverse"
  /\ ptlist' = Reverse(ptlist)
  /\ opt' = <<>>
  /\ max_y' = <<>>
  /\ pos' = 0
  /\ pc' = "scan"
  /\ UNCHANGED <<points, given, entry, calls, stack, results>>

\* lines 35-40, one iteration of the for loop
ScanStep ==
  /\ pc = "scan"
  /\ pos < Len(ptlist)
  /\ LET pnt == ptlist[pos + 1] IN
       IF ExceedsMaxY(pnt[2], max_y)
       THEN /\ max_y' = <<pnt[2]>>
            /\ opt' = Append(opt, pnt)
       ELSE UNCHANGED <<max_y, opt>>
  /\ pos' = pos + 1
  /\ UNCHANGED <<points, given, entry, calls, pc, ptlist, stack, results>>

\* line 41, and the caller's results = pareto_optimal(points)
ScanReturn ==
  /\ pc = "scan"
  /\ pos = Len(ptlist)
  /\ results' = opt
  /\ pc' = "done"
  /\ UNCHANGED <<points, given, entry, calls, ptlist, stack, opt, max_y, pos>>

\* A caller applying pareto_optimal to the list it returned.
CallAgain ==
  /\ pc = "done"
  /\ entry = "pareto_optimal"
  /\ calls = 1
  /\ points' = results
  /\ given' = results
  /\ pc' = "start"
  /\ ptlist' = <<>>
  /\ opt' = <<>>
  /\ max_y' = <<>>
  /\ pos' = 0
  /\ UNCHANGED <<entry, calls, stack, results>>

Next ==
  \/ ParetoBegin
  \/ SortBegin
  \/ SortBase
  \/ SortSplit
  \/ SortCallLeft
  \/ SortCallRight
  \/ MergeLoop
  \/ MergeLoopExit
  \/ DrainLeft
  \/ DrainLeftExit
  \/ DrainRight
  \/ DrainRightExit
  \/ ReverseList
  \/ ScanStep
  \/ ScanReturn
  \/ CallAgain

Spec == Init /\ [][Next]_vars

\* The program is sequential: whenever a step is possible it is taken.
FairSpec == Spec /\ WF_vars(Next)

----------------------------------------------------------------------------
\* Vocabulary of the properties

Range(s) == {s[i] : i \in DOMAIN s}

\* P dominates Q
Dominates(p, q) == p[1] >= q[1] /\ p[2] >= q[2] /\ (p[1] > q[1] \/ p[2] > q[2])

\* The points of s that no point of s dominates
ParetoSet(s) == {s[i] : i \in {k \in DOMAIN s : \A j \in DOMAIN s : ~Dominates(s[j], s[k])}}

\* pareto_optimal(points) has returned results
ParetoDone == entry = "pareto_optimal" /\ pc = "done"

\* mergesort_by_x has returned to its outermost caller
SortDone == (entry = "mergesort_by_x" /\ pc = "done") \/ pc = "reverse"

\* the list that call sorted
SortedList == IF entry = "mergesort_by_x" THEN points ELSE ptlist

IsSortedByX(s) == \A i \in 1..(Len(s) - 1) : s[i][1] <= s[i + 1][1]

Count(s, p) == Cardinality({i \in DOMAIN s : s[i] = p})

SameMultiset(s, t) ==
  /\ Len(s) = Len(t)
  /\ \A p \in Range(s) \cup Range(t) : Count(s, p) = Count(t, p)

RECURSIVE WithX(_, _)
\* the points of s whose x is x, in the order of s
WithX(s, x) ==
  IF s = <<>> THEN <<>>
  ELSE (IF Head(s)[1] = x THEN <<Head(s)>> ELSE <<>>) \o WithX(Tail(s), x)

SameOrderAmongEqualX(s, t) ==
  \A x \in {p[1] : p \in Range(s) \cup Range(t)} : WithX(s, x) = WithX(t, x)

\* Place of s[i] in the visiting order: larger x first, and among equal x
\* the point later in s first.
VisitPlace(s, i) ==
  1 + Cardinality({j \in DOMAIN s : s[j][1] > s[i][1] \/ (s[j][1] = s[i][1] /\ j > i)})

VisitOrder(s) == [k \in 1..Len(s) |-> s[CHOOSE i \in DOMAIN s : VisitPlace(s, i) = k]]

RECURSIVE RecordsFrom(_, _)
\* the points of v from place k on whose y is above that of every point before them
RecordsFrom(v, k) ==
  IF k > Len(v) THEN <<>>
  ELSE (IF \A m \in 1..(k - 1) : v[m][2] < v[k][2] THEN <<v[k]>> ELSE <<>>)
       \o RecordsFrom(v, k + 1)

ExpectedRef ==
  << <<11, 2, "G">>, <<10, 4, "F">>, <<8, 7, "E">>, <<5, 10, "D">>, <<1, 11, "J">> >>

----------------------------------------------------------------------------
\* C1: pareto_optimal returns exactly the points of the input that no point
\* of the input dominates.
C1_ExactlyParetoOptimal ==
  ParetoDone => Range(results) = ParetoSet(points)

\* C2: after mergesort_by_x the list is non-decreasing in x, holds the same
\* multiset of points as before the call, and keeps points of equal x in
\* their input order.
C2_SortedPermutationStable ==
  SortDone =>
    /\ IsSortedByX(SortedList)
    /\ SameMultiset(SortedList, given)
    /\ SameOrderAmongEqualX(SortedList, given)

C2_Witness ==
  /\ entry = "mergesort_by_x" /\ pc = "done"
  /\ points # given
  /\ \E i, j \in DOMAIN given : i < j /\ given[i][1] = given[j][1]

\* C3: every input point left out of the result has a point of the result
\* that is at least as good in one coordinate and strictly better in the other.
C3_ExcludedIsBeaten ==
  ParetoDone =>
    \A i \in DOMAIN points :
      points[i] \notin Range(results) =>
        \E r \in Range(results) :
          \/ r[1] >= points[i][1] /\ r[2] > points[i][2]
          \/ r[1] > points[i][1] /\ r[2] >= points[i][2]

\* C4: pareto_optimal applied to its own result returns the same set of points.
C4_Idempotent ==
  (ParetoDone /\ calls = 2) => Range(results) = Range(points)

\* C5: no two points of the result have the same x-coordinate.
C5_OnePointPerX ==
  ParetoDone =>
    \A i, j \in DOMAIN results : i # j => results[i][1] # results[j][1]

\* C6: along the result, x never increases and y strictly increases.
C6_Monotone ==
  ParetoDone =>
    \A k \in 1..(Len(results) - 1) :
      /\ results[k][1] >= results[k + 1][1]
      /\ results[k][2] < results[k + 1][2]

C6_Witness ==
  /\ ParetoDone
  /\ Len(results) >= 2
  /\ Len(results) < Len(points)

\* C7: for the example of test(), pareto_optimal returns G, F, E, D, J in
\* that order.
C7_Reference ==
  (ParetoDone /\ calls = 1 /\ given = RefPoints) => results = ExpectedRef

C7_Witness == ParetoDone /\ calls = 1 /\ given = RefPoints

C10_InputUntouched ==
  /\ entry = "pareto_optimal" => points = given
  /\ points # given => entry = "mergesort_by_x"

C10_Witness ==
  /\ entry = "pareto_optimal"
  /\ pc = "reverse"
  /\ ptlist # points

\* Frames that have split their list and not yet begun to merge
BeforeMerge(f) == f.pc \in {"callLeft", "inLeft", "callRight", "inRight"}

\* Frames inside merge
InMerge(f) == f.pc \in {"merge", "drainLeft", "drainRight"}

\* No IndexError; every split gives floor(N/2) >= 1 points to the left and
\* the remaining >= 1 to the right; merge has stored idx points at the
\* indices 0 .. idx-1 and has exactly the room left for the points still in
\* the halves; when the last loop is over both halves are empty and
\* idx = len(org).
C9_SortSteps ==
  /\ pc # "error"
  /\ \A k \in DOMAIN stack :
       LET f == stack[k]
           n == Len(Pts(k))
       IN /\ BeforeMerge(f) =>
               /\ n > 1
               /\ f.mid = n \div 2
               /\ Len(f.left) = n \div 2 /\ Len(f.left) >= 1
               /\ Len(f.right) = n - (n \div 2) /\ Len(f.right) >= 1
          /\ InMerge(f) =>
               /\ f.idx + Len(f.left) + Len(f.right) = n
               /\ (Len(f.left) > 0 \/ Len(f.right) > 0) => f.idx < n
          /\ (f.pc = "drainLeft") => (f.left = <<>> \/ f.right = <<>>)
          /\ (f.pc = "drainRight") => f.left = <<>>
          /\ (f.pc = "drainRight" /\ f.right = <<>>) => f.idx = n

====
